---- MODULE Spec2Model ----
\* RedditShield: the content script's filtering engine (reddit-shield.js), the
\* popup's persistence (popup.js) and the message protocol between them.
\* Strings are sequences of one-character strings, so that prefix stripping,
\* lower-casing, trimming and host extraction are computed, not assumed.
EXTENDS Integers, Sequences, FiniteSets, TLC

\* ------------------------------------------------------------------ bounds

\* element slots of the page, in document order
NumElems == 4
\* slots the live page of the engine specification fills
EngineElems == 2
\* in-flight _options_get_saved chains
MaxReads == 2
\* cap of the hidden counter beyond which the page adds no more elements
MaxCount == 2
\* pieces concatenated into one raw filter line
MaxPieces == 2
\* characters of the popup's user list beyond which no cleanup is requested
MaxFieldLen == 12
\* storage operations queued per area
MaxPending == 3
\* clock ticks that make up the 100 ms delay of the debounce timer
DebounceTicks == 1
\* open tabs
NumTabs == 2

\* ----------------------------------------------------------------- strings

UpperChars == <<"A", "B", "F", "H", "P", "R", "S", "T", "U", "W", "X">>
LowerChars == <<"a", "b", "f", "h", "p", "r", "s", "t", "u", "w", "x">>

\* String.prototype.toLowerCase, one character
LowerChar(c) ==
    IF \E i \in 1..Len(UpperChars) : UpperChars[i] = c
    THEN LowerChars[CHOOSE i \in 1..Len(UpperChars) : UpperChars[i] = c]
    ELSE c

\* String.prototype.toLowerCase
ToLowerCase(s) == [i \in 1..Len(s) |-> LowerChar(s[i])]

\* s.slice(n)
Slice(s, n) == IF n >= Len(s) THEN <<>> ELSE SubSeq(s, n + 1, Len(s))

\* s.substring(0, n)
Substring0(s, n) == IF n >= Len(s) THEN s ELSE SubSeq(s, 1, n)

\* s.includes(sub)
Includes(s, sub) ==
    \E i \in 0..(Len(s) - Len(sub)) : SubSeq(s, i + 1, i + Len(sub)) = sub

\* characters String.prototype.trim removes
IsSpace(c) == c \in {" ", "\t"}

\* s.trim()
Trim(s) ==
    LET keep == {i \in 1..Len(s) : ~IsSpace(s[i])}
        lo == CHOOSE i \in keep : \A j \in keep : i <= j
        hi == CHOOSE i \in keep : \A j \in keep : i >= j
    IN  IF keep = {} THEN <<>> ELSE SubSeq(s, lo, hi)

\* the longest prefix of s made of characters outside stop
TakeUntil(s, stop) ==
    LET hits == {i \in 1..Len(s) : s[i] \in stop}
        first == CHOOSE i \in hits : \A j \in hits : i <= j
    IN  IF hits = {} THEN s ELSE SubSeq(s, 1, first - 1)

\* whether s starts with p, compared case-insensitively (the regex's /i flag)
StartsWithI(s, p) == Len(s) >= Len(p) /\ ToLowerCase(SubSeq(s, 1, Len(p))) = p

\* the elements of a sequence
Range(q) == {q[i] : i \in 1..Len(q)}

\* ------------------------------------------------------------- normalizer

\* "u/" prefix removal of the author category: one case-sensitive strip
CleanUser(_user) ==
    IF Len(_user) >= 2 /\ Substring0(_user, 2) = <<"u", "/">>
    THEN Slice(_user, 2)
    ELSE _user

\* "r/" prefix removal (case-sensitive), then lower-casing
CleanSubreddit(_subreddit) ==
    ToLowerCase(IF Len(_subreddit) >= 2 /\ Substring0(_subreddit, 2) = <<"r", "/">>
                THEN Slice(_subreddit, 2)
                ELSE _subreddit)

HttpScheme == <<"h", "t", "t", "p", ":", "/", "/">>
HttpsScheme == <<"h", "t", "t", "p", "s", ":", "/", "/">>
WwwPrefix == <<"w", "w", "w", ".">>
HostStop == {"/", "?", "#"}

\* what (?:https?:\/\/)? consumes when it is taken
SchemeLen(s) ==
    IF StartsWithI(s, HttpsScheme) THEN Len(HttpsScheme)
    ELSE IF StartsWithI(s, HttpScheme) THEN Len(HttpScheme)
    ELSE 0

\* _domain.replace(/^(?:https?:\/\/)?(?:www\.)?([^\/\?#]+).*$/i, "$1") || "":
\* the optional groups are greedy and backtrack in the regex engine's order
\* (both taken, scheme only, www only, neither); with no match at all the
\* string is returned unchanged
DomainExtract(_domain) ==
    LET sl == SchemeLen(_domain)
        afterScheme == Slice(_domain, sl)
        hostAt(s) == s # <<>> /\ s[1] \notin HostStop
        cands == <<
            IF sl > 0 /\ StartsWithI(afterScheme, WwwPrefix)
                THEN Slice(afterScheme, Len(WwwPrefix)) ELSE <<>>,
            IF sl > 0 THEN afterScheme ELSE <<>>,
            IF StartsWithI(_domain, WwwPrefix)
                THEN Slice(_domain, Len(WwwPrefix)) ELSE <<>>,
            _domain >>
        ok == {i \in 1..4 : hostAt(cands[i])}
        pick == CHOOSE i \in ok : \A j \in ok : i <= j
    IN  IF ok = {} THEN _domain ELSE TakeUntil(cands[pick], HostStop)

\* the entry added to __domain_bans
CleanDomain(_domain) == ToLowerCase(DomainExtract(_domain))

\* the keyword entries kept: only those that are not blank, lower-cased
KeepKeyword(_keyword) == Trim(_keyword) # <<>>

\* ------------------------------------------------------------------ state

VARIABLES
    \* content script (cls_redditShieldContent)
    user_bans, subreddit_bans, keyword_bans, domain_bans,
    logging_enabled, filter_users, filter_keywords, filter_subreddits,
    filter_domains, filtered_count, current_url,
    \* the page: window.location.href, the elements' attributes and their
    \* computed display ("absent" = not in the document)
    location, elems, display,
    \* the debounce timer is pending; in-flight storage reads of the content
    \* script, by stage
    debounce_timeout, reads,
    \* ticks since the pending debounce timer was set, and ticks since the
    \* last batch with an added node, both counted up to the delay
    elapsed, quiet,
    \* count of the last updateBadge report; cleanup request and response in flight
    badge, request, response,
    \* chrome.storage.local / chrome.storage.sync and their queued operations
    local, sync, localQ, syncQ,
    \* popup: the form, the inline cleanup message, pending cleanup writes
    form, description, cleanup_writes,
    \* popup document: how far its start-up has come, the listeners added
    \* for DOMContentLoaded, the cleanup buttons that have a click listener
    popup_stage, dcl_listeners, click_listeners,
    \* background service worker: the message its listeners handled last and
    \* the badge text of every tab
    badge_request, badge_text,
    \* of the step just taken: the branch that hid each element it hid, the
    \* elements its scans iterated over, and the scanning handler it ran
    hidden_by, evaluated, last_handler

ruleVars == <<user_bans, subreddit_bans, keyword_bans, domain_bans,
              logging_enabled, filter_users, filter_keywords,
              filter_subreddits, filter_domains>>
pageVars == <<location, elems, display>>
storeVars == <<local, sync, localQ, syncQ>>
loadVars == <<popup_stage, dcl_listeners, click_listeners>>
popupVars == <<form, description, cleanup_writes, loadVars>>
msgVars == <<request, response>>
clockVars == <<elapsed, quiet>>
bgVars == <<badge_request, badge_text>>
vars == <<ruleVars, filtered_count, current_url, pageVars, debounce_timeout, clockVars,
          reads, badge, bgVars, msgVars, storeVars, popupVars, hidden_by, evaluated,
          last_handler>>

Slots == 1..NumElems
None == "none"

\* no scan ran in this step
NoScan ==
    /\ hidden_by' = [e \in Slots |-> None]
    /\ evaluated' = {}
    /\ last_handler' = None

\* the URLs the tab can show; pathname.includes("/comments/") holds of ThreadURLs
URLs == {"/r/pics/", "/r/pics/comments/1/"}
ThreadURLs == {"/r/pics/comments/1/"}
PathIncludesComments(href) == href \in ThreadURLs

\* ---------------------------------------------------------------- storage

\* the keys the content script asks the active area for
ContentKeys == {"hiddenUsers", "hiddenKeywords", "hiddenSubreddits", "hiddenDomains",
                "loggingEnabled", "filterUsers", "filterKeywords", "filterSubreddits",
                "filterDomains", "blockUsers", "blockKeywords", "blockSubreddits",
                "blockDomains"}

\* area.get(keys): the stored items among keys, absent keys omitted
AreaGet(area, keys) == [k \in (DOMAIN area) \cap keys |-> area[k]]

Has(_result, k) == k \in DOMAIN _result

\* as EnableSyncOf, defaulting to false
EnableSyncDefaultFalse(_local_result) ==
    IF Has(_local_result, "enableSync") THEN _local_result["enableSync"] ELSE FALSE

\* _local_result.enableSync !== undefined ? _local_result.enableSync : true
EnableSyncOf(_local_result) ==
    IF Has(_local_result, "enableSync") THEN _local_result["enableSync"] ELSE TRUE

\* ------------------------------------------------------------- rule store

NewUserBans(_result) ==
    IF Has(_result, "hiddenUsers")
    THEN {CleanUser(u) : u \in Range(_result["hiddenUsers"])}
    ELSE {}

NewKeywordBans(_result) ==
    IF Has(_result, "hiddenKeywords")
    THEN {ToLowerCase(k) : k \in {x \in Range(_result["hiddenKeywords"]) : KeepKeyword(x)}}
    ELSE {}

NewSubredditBans(_result) ==
    IF Has(_result, "hiddenSubreddits")
    THEN {CleanSubreddit(x) : x \in Range(_result["hiddenSubreddits"])}
    ELSE {}

NewDomainBans(_result) ==
    IF Has(_result, "hiddenDomains")
    THEN {CleanDomain(x) : x \in Range(_result["hiddenDomains"])}
    ELSE {}

\* as NewFlag, with the legacy key tested first
NewFlagLegacyFirst(_result, key, legacy, old) ==
    IF Has(_result, legacy) THEN _result[legacy]
    ELSE IF Has(_result, key) THEN _result[key]
    ELSE old

\* a preference flag: the current key, else the legacy key, else left as it was
NewFlag(_result, key, legacy, old) ==
    IF Has(_result, key) THEN _result[key]
    ELSE IF Has(_result, legacy) THEN _result[legacy]
    ELSE old

\* loggingEnabled has no legacy key
NewLogging(_result, old) ==
    IF Has(_result, "loggingEnabled") THEN _result["loggingEnabled"] ELSE old

\* ----------------------------------------------------------------- scans

Posts == {e \in Slots : elems[e].kind = "post"}
Comments == {e \in Slots : elems[e].kind = "comment"}

\* as VisibleOf, without the visibility filter
VisibleOfUnfiltered(all, disp) == {e \in all : disp[e] # "absent"}

\* querySelectorAll(...) filtered by getComputedStyle(_el).display !== "none"
VisibleOf(all, disp) == {e \in all : disp[e] = "block"}

\* as PostCategory, with the keyword test ahead of the subreddit test
PostCategoryKeywordFirst(e, subs, kws, users, doms, fl) ==
    IF fl.keywords /\ \E k \in kws : Includes(ToLowerCase(elems[e].title), k)
        THEN "keyword"
    ELSE IF fl.subreddits /\ ToLowerCase(Slice(elems[e].subreddit, 2)) \in subs
        THEN "subreddit"
    ELSE IF fl.users /\ elems[e].author \in users
        THEN "user"
    ELSE IF fl.domains /\ ToLowerCase(elems[e].domain) \in doms
        THEN "domain"
    ELSE None

\* the branch of _posts_ban's loop body that hides _post, "none" if none does
PostCategory(e, subs, kws, users, doms, fl) ==
    IF fl.subreddits /\ ToLowerCase(Slice(elems[e].subreddit, 2)) \in subs
        THEN "subreddit"
    ELSE IF fl.keywords /\ \E k \in kws : Includes(ToLowerCase(elems[e].title), k)
        THEN "keyword"
    ELSE IF fl.users /\ elems[e].author \in users
        THEN "user"
    ELSE IF fl.domains /\ ToLowerCase(elems[e].domain) \in doms
        THEN "domain"
    ELSE None

\* as PostsEvaluated, on any path
PostsEvaluatedAnyPath(href, disp) == VisibleOf(Posts, disp)

\* the posts _posts_ban iterates over: none on a thread page
PostsEvaluated(href, disp) ==
    IF PathIncludesComments(href) THEN {} ELSE VisibleOf(Posts, disp)

\* the posts _posts_ban hides
PostsBan(href, disp, subs, kws, users, doms, fl) ==
    {e \in PostsEvaluated(href, disp) : PostCategory(e, subs, kws, users, doms, fl) # None}

\* as CommentsEvaluated, whatever the user filter's flag
CommentsEvaluatedAnyFlag(href, disp, fl) ==
    IF ~PathIncludesComments(href) THEN {} ELSE VisibleOf(Comments, disp)

\* the comments _comments_ban iterates over: thread pages only, and only
\* when user filtering is enabled
CommentsEvaluated(href, disp, fl) ==
    IF ~PathIncludesComments(href) \/ ~fl.users THEN {} ELSE VisibleOf(Comments, disp)

\* as CommentsBan, hiding nothing
CommentsBanNothing(href, disp, _users, fl) == {}

\* the comments _comments_ban(_users) hides
CommentsBan(href, disp, _users, fl) ==
    {e \in CommentsEvaluated(href, disp, fl) :
        elems[e].author # <<>> /\ elems[e].author \in _users}

\* display after hiding the elements of hide
Hide(disp, hide) == [e \in Slots |-> IF e \in hide THEN "none" ELSE disp[e]]

\* ------------------------------------------------- content-script actions

Flags(u, k, s, d) == [users |-> u, keywords |-> k, subreddits |-> s, domains |-> d]

\* reads with one chain moved out of stage from and, unless to is None, into to
MoveRead(from, to) ==
    [st \in DOMAIN reads |->
        reads[st] - (IF st = from THEN 1 ELSE 0) + (IF st = to THEN 1 ELSE 0)]

ReadsInFlight == reads["pin"] + reads["sync"] + reads["local"]

\* _badge_update: the count sent to the background script
BadgeUpdate(count) == count

\* as Navigated, but true of every reload
NavigatedAlways(href, remembered) == TRUE

\* window.location.href !== __current_url
Navigated(href, remembered) == href # remembered

\* _options_process(_result): replace the rule sets and flags, detect
\* navigation, scan (posts, then comments), report the count
OptionsProcess(_result) ==
    LET ub == NewUserBans(_result)
        kb == NewKeywordBans(_result)
        sb == NewSubredditBans(_result)
        db == NewDomainBans(_result)
        fl == Flags(NewFlag(_result, "filterUsers", "blockUsers", filter_users),
                    NewFlag(_result, "filterKeywords", "blockKeywords", filter_keywords),
                    NewFlag(_result, "filterSubreddits", "blockSubreddits", filter_subreddits),
                    NewFlag(_result, "filterDomains", "blockDomains", filter_domains))
        base == IF Navigated(location, current_url) THEN 0 ELSE filtered_count
        hp == PostsBan(location, display, sb, kb, ub, db, fl)
        d1 == Hide(display, hp)
        hc == CommentsBan(location, d1, ub, fl)
        count == base + Cardinality(hp) + Cardinality(hc)
    IN  /\ user_bans' = ub
        /\ keyword_bans' = kb
        /\ subreddit_bans' = sb
        /\ domain_bans' = db
        /\ logging_enabled' = NewLogging(_result, logging_enabled)
        /\ filter_users' = fl.users
        /\ filter_keywords' = fl.keywords
        /\ filter_subreddits' = fl.subreddits
        /\ filter_domains' = fl.domains
        /\ current_url' = location
        /\ filtered_count' = count
        /\ display' = Hide(d1, hc)
        /\ hidden_by' = [e \in Slots |->
                IF e \in hp THEN PostCategory(e, sb, kb, ub, db, fl)
                ELSE IF e \in hc THEN "user"
                ELSE None]
        /\ evaluated' = PostsEvaluated(location, display)
                            \cup CommentsEvaluated(location, d1, fl)
        /\ badge' = BadgeUpdate(count)
        /\ UNCHANGED bgVars
        /\ last_handler' = "reload"
        /\ UNCHANGED <<location, elems>>

\* callback of chrome.storage.local.get(["enableSync"]) in _options_get_saved:
\* choose the area and start the read of the filtering options
LocalGetCallback ==
    /\ reads["pin"] > 0
    /\ reads' = MoveRead("pin",
                    IF EnableSyncOf(AreaGet(local, {"enableSync"})) THEN "sync" ELSE "local")
    /\ UNCHANGED <<ruleVars, filtered_count, current_url, pageVars, debounce_timeout, clockVars,
                   badge, bgVars, msgVars, storeVars, popupVars>>
    /\ NoScan

\* callback of _storage_area.get([...]) in _options_get_saved
AreaGetCallback ==
    \E st \in {"sync", "local"} :
        /\ reads[st] > 0
        /\ reads' = MoveRead(st, None)
        /\ OptionsProcess(AreaGet(IF st = "sync" THEN sync ELSE local, ContentKeys))
        /\ UNCHANGED <<debounce_timeout, clockVars, msgVars, storeVars, popupVars>>

\* the MutationObserver callback: a batch with an added node (re)starts the
\* debounce timer, any other batch leaves it alone
ObserverCallback(hasAdded) == IF hasAdded THEN TRUE ELSE debounce_timeout

\* as TimerRestart, the pending timer left running
TimerKept(hasAdded) == elapsed

\* clearTimeout and setTimeout of the observer callback: a batch with an
\* added node starts the delay afresh
TimerRestart(hasAdded) == IF hasAdded THEN 0 ELSE elapsed

\* the debounce timer fires: _options_get_saved starts a new read chain
TimerFired ==
    /\ debounce_timeout
    /\ elapsed = DebounceTicks
    /\ elapsed' = 0
    /\ quiet' = 0
    /\ ReadsInFlight < MaxReads
    /\ debounce_timeout' = FALSE
    /\ reads' = [reads EXCEPT !["pin"] = @ + 1]
    /\ UNCHANGED <<ruleVars, filtered_count, current_url, pageVars, badge, bgVars, msgVars,
                   storeVars, popupVars>>
    /\ NoScan

\* ------------------------------------------------------------ environment

\* the page inserts the element of slot e, shown or already hidden by the
\* site; the observer sees a batch with an added node
DomAdd ==
    \E e \in 1..EngineElems, d \in {"block", "none"} :
        /\ display[e] = "absent"
        /\ filtered_count < MaxCount
        /\ display' = [display EXCEPT ![e] = d]
        /\ debounce_timeout' = ObserverCallback(TRUE)
        /\ elapsed' = TimerRestart(TRUE)
        /\ quiet' = 0
        /\ UNCHANGED <<ruleVars, filtered_count, current_url, location, elems, reads,
                       badge, bgVars, msgVars, storeVars, popupVars>>
        /\ NoScan

\* the page removes the element of slot e; the observer sees a batch with no
\* added node
DomRemove ==
    \E e \in Slots :
        /\ display[e] # "absent"
        /\ display' = [display EXCEPT ![e] = "absent"]
        /\ debounce_timeout' = ObserverCallback(FALSE)
        /\ elapsed' = TimerRestart(FALSE)
        /\ UNCHANGED quiet
        /\ UNCHANGED <<ruleVars, filtered_count, current_url, location, elems, reads,
                       badge, bgVars, msgVars, storeVars, popupVars>>
        /\ NoScan

\* a tick of the clock while the debounce timer is pending
Tick ==
    /\ debounce_timeout
    /\ elapsed < DebounceTicks
    /\ elapsed' = elapsed + 1
    /\ quiet' = IF quiet < DebounceTicks THEN quiet + 1 ELSE quiet
    /\ UNCHANGED <<ruleVars, filtered_count, current_url, pageVars, debounce_timeout,
                   reads, badge, bgVars, msgVars, storeVars, popupVars>>
    /\ NoScan

\* in-page navigation (history.pushState): the location changes, the script
\* instance and the document stay
Navigate ==
    \E u \in URLs :
        /\ u # location
        /\ location' = u
        /\ UNCHANGED <<ruleVars, filtered_count, current_url, elems, display,
                       debounce_timeout, clockVars, reads, badge, bgVars, msgVars, storeVars, popupVars>>
        /\ NoScan

\* --------------------------------------------------------------- cleanup

NoResponse == [action |-> None, status |-> 0, message |-> <<>>]

\* _cleanup_get_users over the first n slots: the reduce over
\* querySelectorAll("shreddit-post, shreddit-comment") in document order,
\* pushing every author that is non-empty and not in __user_bans
RECURSIVE CleanupGetUsersUpTo(_)
CleanupGetUsersUpTo(n) ==
    IF n = 0 THEN <<>>
    ELSE LET acc == CleanupGetUsersUpTo(n - 1)
             _author == elems[n].author
         IN  IF display[n] # "absent" /\ _author # <<>> /\ _author \notin user_bans
             THEN Append(acc, _author)
             ELSE acc

CleanupGetUsers == CleanupGetUsersUpTo(NumElems)

\* as CleanupGetKeywords, over the posts still shown
CleanupGetKeywordsShown ==
    {ToLowerCase(k) : k \in {x \in keyword_bans :
        \E e \in Posts : /\ display[e] = "block"
                         /\ elems[e].title # <<>>
                         /\ Includes(ToLowerCase(elems[e].title), ToLowerCase(x))}}

\* _cleanup_get_keywords: the keyword rules found in some post's title
CleanupGetKeywords ==
    {ToLowerCase(k) : k \in {x \in keyword_bans :
        \E e \in Posts : /\ display[e] # "absent"
                         /\ elems[e].title # <<>>
                         /\ Includes(ToLowerCase(elems[e].title), ToLowerCase(x))}}

\* _cleanup_get_subreddits: the subreddit rules naming some post's subreddit
CleanupGetSubreddits ==
    {ToLowerCase(r) : r \in {x \in subreddit_bans :
        \E e \in Posts : /\ display[e] # "absent"
                         /\ elems[e].subreddit # <<>>
                         /\ ToLowerCase(Slice(elems[e].subreddit, 2)) = ToLowerCase(x)}}

CleanupActions == {"cleanupUsers", "cleanupKeywords", "cleanupSubreddits"}

\* the response _cleanup_request_handle(_request, _sender, _send_response)
\* passes to _send_response
CleanupResponse(_request) ==
    IF _request = "cleanupUsers"
    THEN IF ~PathIncludesComments(location)
         THEN [action |-> _request, status |-> 400, message |-> <<>>]
         ELSE [action |-> _request, status |-> 200, message |-> CleanupGetUsers]
    ELSE IF _request = "cleanupKeywords"
    THEN [action |-> _request, status |-> 200, message |-> CleanupGetKeywords]
    ELSE [action |-> _request, status |-> 200, message |-> CleanupGetSubreddits]

\* what _cleanup_request_handle does to the page and the counter: on a
\* thread, cleanupUsers runs _comments_ban over the collected users
CleanupApply(_request) ==
    LET fl == Flags(filter_users, filter_keywords, filter_subreddits, filter_domains)
        thread == PathIncludesComments(location)
        _users_to_ban == CleanupGetUsers
        hc == IF _request = "cleanupUsers" /\ thread
              THEN CommentsBan(location, display, Range(_users_to_ban), fl)
              ELSE {}
    IN  /\ display' = Hide(display, hc)
        /\ filtered_count' = filtered_count + Cardinality(hc)
        /\ hidden_by' = [e \in Slots |-> IF e \in hc THEN "user" ELSE None]
        /\ evaluated' = IF _request = "cleanupUsers" /\ thread
                        THEN CommentsEvaluated(location, display, fl)
                        ELSE {}
        /\ last_handler' = _request
        /\ UNCHANGED <<ruleVars, current_url, location, elems, debounce_timeout,
                       clockVars, reads, badge, bgVars, storeVars, popupVars>>

\* _cleanup_request_handle: the response sent and the filtering applied
CleanupRequestHandle(_request) ==
    /\ response' = CleanupResponse(_request)
    /\ CleanupApply(_request)

\* a cleanup message reaches the content script's listener
CleanupMessage ==
    /\ request \in CleanupActions
    /\ response.status = 0
    /\ CleanupRequestHandle(request)
    /\ request' = None

\* ------------------------------------------------------------------ popup

NL == "\n"

\* value.split("\n")
RECURSIVE SplitLines(_)
SplitLines(s) ==
    LET nl == {i \in 1..Len(s) : s[i] = NL}
        first == CHOOSE i \in nl : \A j \in nl : i <= j
    IN  IF nl = {} THEN <<s>>
        ELSE <<SubSeq(s, 1, first - 1)>> \o SplitLines(Slice(s, first))

\* list.join("\n")
RECURSIVE JoinLines(_)
JoinLines(q) ==
    IF Len(q) = 0 THEN <<>>
    ELSE IF Len(q) = 1 THEN q[1]
    ELSE q[1] \o <<NL>> \o JoinLines(Tail(q))

\* value.split("\n").map(item => item.trim())
FieldLines(value) ==
    LET lines == SplitLines(value)
    IN  [i \in 1..Len(lines) |-> Trim(lines[i])]

EmptyRecord == [k \in {} |-> TRUE]

\* __storage_keys: what the popup loads
StorageKeys == {"hiddenUsers", "hiddenKeywords", "hiddenSubreddits", "hiddenDomains",
                "loggingEnabled", "filterUsers", "filterKeywords", "filterSubreddits",
                "filterDomains"}

\* as KeysToRemove, without the legacy keys
KeysToRemoveCurrentOnly == StorageKeys

\* _keys_to_remove of _data_migrate
KeysToRemove == {"hiddenUsers", "hiddenKeywords", "hiddenSubreddits", "hiddenDomains",
                 "loggingEnabled", "expandImages", "filterUsers", "filterKeywords",
                 "filterSubreddits", "filterDomains", "blockUsers", "blockKeywords",
                 "blockSubreddits", "blockDomains"}

\* _data_to_save of _data_save
DataToSave(f) ==
    [hiddenUsers |-> FieldLines(f.userList),
     hiddenKeywords |-> FieldLines(f.keywordList),
     hiddenSubreddits |-> FieldLines(f.subredditList),
     hiddenDomains |-> FieldLines(f.domainList),
     loggingEnabled |-> f.loggingEnabled,
     filterUsers |-> f.filterUsers,
     filterKeywords |-> f.filterKeywords,
     filterSubreddits |-> f.filterSubreddits,
     filterDomains |-> f.filterDomains,
     enableSync |-> f.enableSync]

SetOp(items) == [op |-> "set", items |-> items, keys |-> {}]
RemoveOp(keys) == [op |-> "remove", items |-> EmptyRecord, keys |-> keys]

\* _data_migrate(_enable_sync, _data_to_save): the operation issued on the
\* other area
DataMigrate(_enable_sync) == RemoveOp(KeysToRemove)

\* as SaveLocalOps, with the flag written only when it is true
SaveLocalOpsPinWhenSync(f) ==
    IF f.enableSync
    THEN <<SetOp([enableSync |-> TRUE]), DataMigrate(TRUE)>>
    ELSE <<SetOp(EmptyRecord), SetOp([k \in StorageKeys \ {"enableSync"} |-> DataToSave(f)[k]])>>

\* the operations _data_save issues on the local area, in order
SaveLocalOps(f) ==
    <<SetOp([enableSync |-> f.enableSync])>>
        \o (IF f.enableSync THEN <<DataMigrate(TRUE)>> ELSE <<SetOp(DataToSave(f))>>)

\* the operations _data_save issues on the sync area
SaveSyncOps(f) ==
    IF f.enableSync THEN <<SetOp(DataToSave(f))>> ELSE <<DataMigrate(FALSE)>>

\* _data_save, run by the input/change listener of a form control after the
\* user has set that control
DataSave(f) ==
    /\ Len(localQ) + 2 <= MaxPending
    /\ Len(syncQ) + 1 <= MaxPending
    /\ form' = f
    /\ localQ' = localQ \o SaveLocalOps(f)
    /\ syncQ' = syncQ \o SaveSyncOps(f)
    /\ UNCHANGED <<ruleVars, filtered_count, current_url, pageVars, debounce_timeout, clockVars,
                   reads, badge, bgVars, msgVars, local, sync, description, cleanup_writes,
                   loadVars>>
    /\ NoScan

\* the change listener of a checkbox: the user has toggled box
CheckboxChanged(box) == DataSave([form EXCEPT ![box] = ~form[box]])

\* the input listener of a text field: the user has made its value text
TextInput(field, text) ==
    /\ text # form[field]
    /\ DataSave([form EXCEPT ![field] = text])

\* the effect of one storage operation on an area's items
ApplyOp(area, o) ==
    IF o.op = "set" THEN o.items @@ area
    ELSE [k \in (DOMAIN area) \ o.keys |-> area[k]]

\* chrome.storage.local completes its oldest queued operation
LocalApply ==
    /\ localQ # <<>>
    /\ local' = ApplyOp(local, Head(localQ))
    /\ localQ' = Tail(localQ)
    /\ UNCHANGED <<ruleVars, filtered_count, current_url, pageVars, debounce_timeout, clockVars,
                   reads, badge, bgVars, msgVars, sync, syncQ, popupVars>>
    /\ NoScan

\* chrome.storage.sync completes its oldest queued operation
SyncApply ==
    /\ syncQ # <<>>
    /\ sync' = ApplyOp(sync, Head(syncQ))
    /\ syncQ' = Tail(syncQ)
    /\ UNCHANGED <<ruleVars, filtered_count, current_url, pageVars, debounce_timeout, clockVars,
                   reads, badge, bgVars, msgVars, local, localQ, popupVars>>
    /\ NoScan

\* the form of a freshly opened popup, before _data_load
DefaultForm ==
    [userList |-> <<>>, keywordList |-> <<>>, subredditList |-> <<>>,
     domainList |-> <<>>, loggingEnabled |-> FALSE, filterUsers |-> FALSE,
     filterKeywords |-> FALSE, filterSubreddits |-> FALSE, filterDomains |-> FALSE,
     enableSync |-> FALSE]

\* the first callback of _data_load on the form f: the sync box is set from
\* the local area's flag
DataLoadPin(f, _local_result) ==
    [f EXCEPT !.enableSync = EnableSyncOf(_local_result)]

\* the second callback of _data_load on the form f: the lists and the other
\* boxes are set from the items the selected area holds
DataLoadArea(f, _result) ==
    LET text(key, old) == IF Has(_result, key) THEN JoinLines(_result[key]) ELSE old
        box(key, old) == IF Has(_result, key) THEN _result[key] ELSE old
    IN  [userList |-> text("hiddenUsers", f.userList),
         keywordList |-> text("hiddenKeywords", f.keywordList),
         subredditList |-> text("hiddenSubreddits", f.subredditList),
         domainList |-> text("hiddenDomains", f.domainList),
         loggingEnabled |-> box("loggingEnabled", f.loggingEnabled),
         filterUsers |-> box("filterUsers", f.filterUsers),
         filterKeywords |-> box("filterKeywords", f.filterKeywords),
         filterSubreddits |-> box("filterSubreddits", f.filterSubreddits),
         filterDomains |-> box("filterDomains", f.filterDomains),
         enableSync |-> f.enableSync]

\* _data_load applied to the form f with the two areas as given, nothing
\* coming between its two callbacks
DataLoad(f, loc, syn) ==
    LET g == DataLoadPin(f, AreaGet(loc, {"enableSync"}))
    IN  DataLoadArea(g, AreaGet(IF g.enableSync THEN syn ELSE loc, StorageKeys))

\* a cleanup button's click handler: chrome.tabs.sendMessage to the active tab
PopupCleanupClick(a) ==
    /\ request = None
    /\ response.status = 0
    /\ Len(form.userList) <= MaxFieldLen
    /\ request' = a
    /\ UNCHANGED <<ruleVars, filtered_count, current_url, pageVars, debounce_timeout, clockVars,
                   reads, badge, bgVars, response, storeVars, popupVars>>
    /\ NoScan

\* a click on "Filter current thread"
CleanupUsersClick == PopupCleanupClick("cleanupUsers")

\* as CleanupUsersCallback, without the status test
CleanupUsersCallbackNoStatusTest(_response) ==
    LET _combined_users_array == _response.message \o FieldLines(form.userList)
    IN  /\ form' = [form EXCEPT !.userList = JoinLines(_combined_users_array)]
        /\ cleanup_writes' =
               Append(cleanup_writes, [hiddenUsers |-> _combined_users_array])
        /\ UNCHANGED description

\* the response callback of _cleanup_users_execute: on a status other than
\* 200 only the inline message is set; otherwise the found users are put in
\* front of the form's list, shown, and a write of hiddenUsers is started
CleanupUsersCallback(_response) ==
    IF _response.status # 200
    THEN /\ description' = TRUE
         /\ UNCHANGED <<form, cleanup_writes>>
    ELSE LET _combined_users_array == _response.message \o FieldLines(form.userList)
         IN  /\ form' = [form EXCEPT !.userList = JoinLines(_combined_users_array)]
             /\ cleanup_writes' =
                    Append(cleanup_writes, [hiddenUsers |-> _combined_users_array])
             /\ UNCHANGED description

\* the response callbacks of _cleanup_keywords_execute and
\* _cleanup_subreddits_execute: drop the lines whose lower-casing was found
CleanupPruneCallback(_response, field, key) ==
    IF _response.status # 200
    THEN UNCHANGED <<form, cleanup_writes, description>>
    ELSE LET lines == FieldLines(form[field])
             Kept(k) == ToLowerCase(k) \notin _response.message
             _filtered == SelectSeq(lines, Kept)
         IN  /\ form' = [form EXCEPT ![field] = JoinLines(_filtered)]
             /\ cleanup_writes' = Append(cleanup_writes, [k \in {key} |-> _filtered])
             /\ UNCHANGED description

\* the popup receives the response to its cleanup request
PopupCleanupCallback ==
    /\ response.status # 0
    /\ Len(cleanup_writes) < MaxPending
    /\ IF response.action = "cleanupUsers" THEN CleanupUsersCallback(response)
       ELSE IF response.action = "cleanupKeywords"
       THEN CleanupPruneCallback(response, "keywordList", "hiddenKeywords")
       ELSE CleanupPruneCallback(response, "subredditList", "hiddenSubreddits")
    /\ response' = NoResponse
    /\ UNCHANGED <<ruleVars, filtered_count, current_url, pageVars, debounce_timeout, clockVars,
                   reads, badge, bgVars, request, storeVars, loadVars>>
    /\ NoScan

\* callback of the popup's chrome.storage.local.get(["enableSync"]) after a
\* cleanup: the list is written to the area the local flag selects
CleanupStore ==
    /\ cleanup_writes # <<>>
    /\ LET _enable_sync == EnableSyncOf(AreaGet(local, {"enableSync"}))
       IN  IF _enable_sync
           THEN /\ Len(syncQ) < MaxPending
                /\ syncQ' = Append(syncQ, SetOp(Head(cleanup_writes)))
                /\ UNCHANGED localQ
           ELSE /\ Len(localQ) < MaxPending
                /\ localQ' = Append(localQ, SetOp(Head(cleanup_writes)))
                /\ UNCHANGED syncQ
    /\ cleanup_writes' = Tail(cleanup_writes)
    /\ UNCHANGED <<ruleVars, filtered_count, current_url, pageVars, debounce_timeout, clockVars,
                   reads, badge, bgVars, msgVars, local, sync, form, description, loadVars>>
    /\ NoScan

\* the document fires DOMContentLoaded, once: the listeners added for it so
\* far run; the one of the script's last lines constructs the controller,
\* whose _initialize starts chrome.tabs.query
DOMContentLoaded ==
    /\ popup_stage = "loading"
    /\ popup_stage' = IF "construct" \in dcl_listeners THEN "querying" ELSE "idle"
    /\ click_listeners' = IF "cleanupButtons" \in dcl_listeners
                          THEN CleanupActions ELSE click_listeners
    /\ UNCHANGED <<ruleVars, filtered_count, current_url, pageVars, debounce_timeout,
                   clockVars, reads, badge, bgVars, msgVars, storeVars, form, description,
                   cleanup_writes, dcl_listeners>>
    /\ NoScan

\* callback of chrome.tabs.query in _initialize, the active tab being the
\* Reddit page: _events_render adds the input and change listeners and a
\* DOMContentLoaded listener that is to add the cleanup buttons' click
\* listeners; _data_load starts its read of the local area's flag
TabsQueryCallback ==
    /\ popup_stage = "querying"
    /\ popup_stage' = "pin"
    /\ dcl_listeners' = dcl_listeners \cup {"cleanupButtons"}
    /\ UNCHANGED <<ruleVars, filtered_count, current_url, pageVars, debounce_timeout,
                   clockVars, reads, badge, bgVars, msgVars, storeVars, form, description,
                   cleanup_writes, click_listeners>>
    /\ NoScan

\* callback of chrome.storage.local.get(["enableSync"]) in _data_load: the
\* sync box is set and the read of the selected area starts
DataLoadLocalCallback ==
    /\ popup_stage = "pin"
    /\ form' = DataLoadPin(form, AreaGet(local, {"enableSync"}))
    /\ popup_stage' = IF form'.enableSync THEN "area_sync" ELSE "area_local"
    /\ UNCHANGED <<ruleVars, filtered_count, current_url, pageVars, debounce_timeout,
                   clockVars, reads, badge, bgVars, msgVars, storeVars, description,
                   cleanup_writes, dcl_listeners, click_listeners>>
    /\ NoScan

\* callback of _storage_area.get(__storage_keys) in _data_load: the form is
\* populated
DataLoadAreaCallback ==
    /\ popup_stage \in {"area_sync", "area_local"}
    /\ form' = DataLoadArea(form, AreaGet(IF popup_stage = "area_sync" THEN sync ELSE local,
                                          StorageKeys))
    /\ popup_stage' = "ready"
    /\ UNCHANGED <<ruleVars, filtered_count, current_url, pageVars, debounce_timeout,
                   clockVars, reads, badge, bgVars, msgVars, storeVars, description,
                   cleanup_writes, dcl_listeners, click_listeners>>
    /\ NoScan

\* the user edits a control of the popup before _data_load has populated the
\* form: the control's listener runs _data_save
FormEditedEarly ==
    /\ popup_stage \in {"pin", "area_sync", "area_local"}
    /\ \/ CheckboxChanged("filterUsers")
       \/ \E text \in {<<"u", "/", "b", "o", "b">>} : TextInput("userList", text)

\* the user clicks cleanup button a of the initialized popup: its click
\* listener, if it has one, runs
CleanupButtonClicked(a) ==
    /\ popup_stage = "ready"
    /\ IF a \in click_listeners
       THEN PopupCleanupClick(a)
       ELSE /\ UNCHANGED <<ruleVars, filtered_count, current_url, pageVars,
                           debounce_timeout, clockVars, reads, badge, bgVars, msgVars,
                           storeVars, popupVars>>
            /\ NoScan

\* the user edits a control of the initialized popup
FormEdited ==
    /\ popup_stage = "ready"
    /\ \/ CheckboxChanged("enableSync")
       \/ \E text \in {<<>>, <<"u", "/", "b", "o", "b">>} : TextInput("userList", text)

\* _cleanup_users_execute runs in the initialized popup
CleanupUsersExecute ==
    /\ popup_stage = "ready"
    /\ CleanupUsersClick

\* a cleanup message from any extension page reaches the listener; the
\* sender keeps the response to itself
CleanupRequest ==
    \E a \in CleanupActions :
        /\ CleanupApply(a)
        /\ UNCHANGED msgVars

\* ------------------------------------------------- background service worker

Tabs == 1..NumTabs

Digits == <<"0", "1", "2", "3", "4", "5", "6", "7", "8", "9">>

\* Number.prototype.toString of a non-negative integer
RECURSIVE NumberToString(_)
NumberToString(n) ==
    IF n < 10 THEN <<Digits[n + 1]>>
    ELSE NumberToString(n \div 10) \o <<Digits[(n % 10) + 1]>>

\* as BadgeText, without the cap
BadgeTextUncapped(count) ==
    LET _count == IF count = <<>> THEN 0 ELSE count[1]
    IN  IF _count > 0 THEN NumberToString(_count) ELSE <<>>

\* _badge_text of the updateBadge listener for the report's count, count
\* being <<c>> for a report carrying c and <<>> for one carrying none
BadgeText(count) ==
    LET _count == IF count = <<>> THEN 0 ELSE count[1]
    IN  IF _count > 0
        THEN IF _count > 999 THEN <<"9", "9", "9", "+">> ELSE NumberToString(_count)
        ELSE <<>>

NoRequest == [action |-> None, tab |-> 0, count |-> <<>>]

\* the onMessage listener receives an updateBadge report from the content
\* script of tab _tab_id
UpdateBadge(_tab_id, count) ==
    /\ badge_request' = [action |-> "updateBadge", tab |-> _tab_id, count |-> count]
    /\ badge_text' = [badge_text EXCEPT ![_tab_id] = BadgeText(count)]
    /\ UNCHANGED <<ruleVars, filtered_count, current_url, pageVars, debounce_timeout,
                   clockVars, reads, badge, msgVars, storeVars, popupVars>>
    /\ NoScan

\* the tabs.onRemoved listener: tab _tab_id was closed
TabRemoved(_tab_id) ==
    /\ badge_request' = [action |-> "removed", tab |-> _tab_id, count |-> <<>>]
    /\ badge_text' = [badge_text EXCEPT ![_tab_id] = <<>>]
    /\ UNCHANGED <<ruleVars, filtered_count, current_url, pageVars, debounce_timeout,
                   clockVars, reads, badge, msgVars, storeVars, popupVars>>
    /\ NoScan

\* ------------------------------------------------------------ test data

Alice == <<"a", "l", "i", "c", "e">>
Bob == <<"b", "o", "b">>
Sale == <<"s", "a", "l", "e">>
Pics == <<"p", "i", "c", "s">>
XCom == <<"x", ".", "c", "o", "m">>

\* the page's elements, by slot: a link post, two replies, a self post
Templates ==
    << [kind |-> "post", author |-> Alice,
        title |-> <<"B", "i", "g", " ", "S", "a", "l", "e">>,
        subreddit |-> <<"r", "/", "P", "i", "c", "s">>,
        domain |-> <<"X", ".", "c", "o", "m">>],
       [kind |-> "comment", author |-> Alice, title |-> <<>>, subreddit |-> <<>>,
        domain |-> <<>>],
       [kind |-> "comment", author |-> Bob, title |-> <<>>, subreddit |-> <<>>,
        domain |-> <<>>],
       [kind |-> "post", author |-> Bob,
        title |-> <<"h", "i">>,
        subreddit |-> <<"r", "/", "a", "w", "w">>,
        domain |-> <<>>] >>

Catalog == [e \in Slots |-> Templates[((e - 1) % Len(Templates)) + 1]]

\* a stored record: the four lists and the five flags
Stored(users, keywords, subreddits, domains, log, fu, fk, fs, fd) ==
    [hiddenUsers |-> users, hiddenKeywords |-> keywords,
     hiddenSubreddits |-> subreddits, hiddenDomains |-> domains,
     loggingEnabled |-> log, filterUsers |-> fu, filterKeywords |-> fk,
     filterSubreddits |-> fs, filterDomains |-> fd]

\* ---------------------------------------------------------- specifications

\* the state once the content script is constructed on a page showing href:
\* _initialize has started the first read and attached the observer
InitPage(loc, syn, el, disp, href, f) ==
    /\ user_bans = {} /\ subreddit_bans = {} /\ keyword_bans = {} /\ domain_bans = {}
    /\ logging_enabled = FALSE /\ filter_users = FALSE /\ filter_keywords = FALSE
    /\ filter_subreddits = FALSE /\ filter_domains = FALSE
    /\ filtered_count = 0
    /\ current_url = href
    /\ location = href
    /\ elems = el
    /\ display = disp
    /\ debounce_timeout = FALSE
    /\ elapsed = 0
    /\ quiet = 0
    /\ reads = [pin |-> 1, sync |-> 0, local |-> 0]
    /\ badge = 0
    /\ badge_request = NoRequest
    /\ badge_text = [t \in Tabs |-> <<>>]
    /\ request = None
    /\ response = NoResponse
    /\ local = loc
    /\ sync = syn
    /\ localQ = <<>>
    /\ syncQ = <<>>
    /\ form = f
    /\ description = FALSE
    /\ cleanup_writes = <<>>
    /\ hidden_by = [e \in Slots |-> None]
    /\ evaluated = {}
    /\ last_handler = None

\* the popup once _initialize has completed: its DOMContentLoaded listener
\* has run and _events_render has added its own
PopupReady ==
    /\ popup_stage = "ready"
    /\ dcl_listeners = {"construct", "cleanupButtons"}
    /\ click_listeners = {}

\* the same with the popup open and initialized
InitState(loc, syn, el, disp, href, f) ==
    /\ InitPage(loc, syn, el, disp, href, f)
    /\ PopupReady

\* the records the engine specification starts from
EngineRecords ==
    {Stored(<<Alice>>, <<Sale>>, <<Pics>>, <<XCom>>, TRUE, TRUE, TRUE, TRUE, TRUE),
     Stored(<<<<"u", "/">> \o Alice>>, <<<<>>>>, <<<<>>>>, <<<<>>>>, FALSE, TRUE, FALSE, FALSE, FALSE),
     Stored(<<Bob>>, <<Sale>>, <<>>, <<>>, FALSE, FALSE, TRUE, FALSE, FALSE)}

\* the engine on a live page: reloads, mutations, navigation, cleanup requests
Init ==
    \E rec \in EngineRecords, href \in URLs, shown \in SUBSET (1..EngineElems) :
        InitState(EmptyRecord, rec, Catalog,
                  [e \in Slots |-> IF e \in shown THEN "block" ELSE "absent"],
                  href, DefaultForm)

Next ==
    \/ LocalGetCallback
    \/ AreaGetCallback
    \/ TimerFired
    \/ Tick
    \/ DomAdd
    \/ DomRemove
    \/ Navigate
    \/ CleanupRequest

Spec == Init /\ [][Next]_vars

\* the pieces raw filter lines are put together from
Pieces ==
    {<<"u", "/">>, <<"U", "/">>, <<"r", "/">>, <<"R", "/">>, WwwPrefix,
     <<"W", "w", "w", ".">>, HttpScheme, HttpsScheme,
     <<"H", "T", "T", "P", ":", "/", "/">>, <<"x">>, <<"X">>, <<"a", ".", "b">>,
     <<"/">>, <<"?">>, <<"#">>, <<" ">>}

\* the concatenations of at most n pieces
RECURSIVE Concats(_)
Concats(n) ==
    IF n = 0 THEN {<<>>}
    ELSE Concats(n - 1) \cup {p \o c : p \in Pieces, c \in Concats(n - 1)}

\* the lines the popup can have stored: _data_save trims every line
StoredLines == {Trim(c) : c \in Concats(MaxPieces)}

\* the normalizer on every stored line: the first reload of a content
\* script whose active area holds that line in each of the four lists
InitNorm ==
    \E line \in StoredLines, href \in URLs :
        InitState(EmptyRecord,
                  Stored(<<line>>, <<line>>, <<line>>, <<line>>,
                         FALSE, TRUE, TRUE, TRUE, TRUE),
                  Catalog, [e \in Slots |-> "absent"], href, DefaultForm)

NextNorm ==
    \/ LocalGetCallback
    \/ AreaGetCallback

SpecNorm == InitNorm /\ [][NextNorm]_vars

\* a list as the popup stores it: one rule, or the single empty line of an
\* empty text field
OneOrBlank(rule) == {<<rule>>, <<<<>>>>}

\* the matcher on every combination of rules present and categories enabled:
\* the first reload over a page whose elements are shown or already hidden
InitMatch ==
    \E users \in OneOrBlank(Alice), keywords \in OneOrBlank(Sale),
       subreddits \in OneOrBlank(Pics), domains \in OneOrBlank(XCom),
       fu \in BOOLEAN, fk \in BOOLEAN, fs \in BOOLEAN, fd \in BOOLEAN,
       href \in URLs, disp \in [Slots -> {"block", "none"}] :
        InitState(EmptyRecord,
                  Stored(users, keywords, subreddits, domains, FALSE, fu, fk, fs, fd),
                  Catalog, disp, href, DefaultForm)

NextMatch ==
    \/ LocalGetCallback
    \/ AreaGetCallback

SpecMatch == InitMatch /\ [][NextMatch]_vars

\* the user lists and flags the cleanup specification starts from
CleanupRecords ==
    {Stored(users, <<Sale>>, <<Pics>>, <<<<>>>>, FALSE, fu, TRUE, FALSE, FALSE) :
        users \in {<<<<>>>>, <<Alice>>, <<Bob>>}, fu \in BOOLEAN}

\* the areas with rec as the active record, in the sync or the local area
AreasWith(rec) ==
    {[local |-> EmptyRecord, sync |-> rec],
     [local |-> [enableSync |-> FALSE] @@ rec, sync |-> EmptyRecord]}

\* thread cleanup from an open popup, on every page state: the first reload,
\* the request, the popup's callback and its write
InitCleanup ==
    \E rec \in CleanupRecords, href \in URLs,
       disp \in [Slots -> {"absent", "block", "none"}] :
        \E a \in AreasWith(rec) :
            InitState(a.local, a.sync, Catalog, disp, href,
                      DataLoad(DefaultForm, a.local, a.sync))

NextCleanup ==
    \/ LocalGetCallback
    \/ AreaGetCallback
    \/ CleanupUsersClick
    \/ CleanupMessage
    \/ PopupCleanupCallback
    \/ CleanupStore
    \/ LocalApply
    \/ SyncApply

SpecCleanup == InitCleanup /\ [][NextCleanup]_vars

\* what the user types into the user list
TypedUserLists ==
    {<<>>, <<"u", "/">> \o Alice, Alice \o <<NL>> \o Bob \o <<" ">>}

\* the areas a popup can find: a fresh install, a record of an older version
\* in the sync area, and a current record in either area with leftovers of
\* an older version in the other one
StoreAreas ==
    LET rec == Stored(<<Alice>>, <<Sale>>, <<<<>>>>, <<<<>>>>, FALSE, TRUE, TRUE, FALSE, FALSE)
        old == [hiddenUsers |-> <<Bob>>, blockUsers |-> TRUE, blockKeywords |-> FALSE,
                expandImages |-> TRUE]
    IN  {[local |-> EmptyRecord, sync |-> EmptyRecord],
         [local |-> EmptyRecord, sync |-> old],
         [local |-> [enableSync |-> FALSE] @@ rec, sync |-> old],
         [local |-> [enableSync |-> TRUE] @@ old, sync |-> [enableSync |-> TRUE] @@ rec]}

\* persistence: a loaded popup whose user edits the user list and toggles
\* the sync and user-filter boxes, each edit saving, while the two storage
\* areas complete their operations in their own time
InitStore ==
    \E a \in StoreAreas, href \in URLs :
        InitState(a.local, a.sync, Catalog, [e \in Slots |-> "absent"], href,
                  DataLoad(DefaultForm, a.local, a.sync))

NextStore ==
    \/ \E box \in {"enableSync", "filterUsers"} : CheckboxChanged(box)
    \/ \E text \in TypedUserLists : TextInput("userList", text)
    \/ LocalApply
    \/ SyncApply

SpecStore == InitStore /\ [][NextStore]_vars

\* the debounce on a page whose elements come and go: the event loop runs a
\* due timer and a completed storage read, and the clock does not stop
InitDebounce ==
    \E href \in URLs :
        InitState(EmptyRecord,
                  Stored(<<Alice>>, <<Sale>>, <<Pics>>, <<XCom>>, TRUE, TRUE, TRUE, TRUE, TRUE),
                  Catalog, [e \in Slots |-> "absent"], href, DefaultForm)

NextDebounce ==
    \/ LocalGetCallback
    \/ AreaGetCallback
    \/ TimerFired
    \/ Tick
    \/ DomAdd
    \/ DomRemove

SpecDebounce ==
    /\ InitDebounce /\ [][NextDebounce]_vars
    /\ WF_vars(Tick) /\ WF_vars(TimerFired)
    /\ WF_vars(LocalGetCallback)
    \* weak fairness of AreaGetCallback, its enabling condition written out
    /\ \/ []<>(reads["sync"] + reads["local"] = 0)
       \/ []<><<AreaGetCallback>>_vars

\* the current and the legacy key of each category's flag
FlagKeys ==
    <<<<"filterUsers", "blockUsers">>, <<"filterKeywords", "blockKeywords">>,
      <<"filterSubreddits", "blockSubreddits">>, <<"filterDomains", "blockDomains">>>>

\* a record's items under the keys of ks, each with the value v
Items(ks, v) == [k \in ks |-> v]

\* records of this and of older versions: the four rule lists with, for all
\* categories alike, the current key absent, true or false and the legacy
\* key absent, true or false; and two records that differ by category
FlagRecords ==
    LET lists == [hiddenUsers |-> <<Alice>>, hiddenKeywords |-> <<Sale>>,
                  hiddenSubreddits |-> <<Pics>>, hiddenDomains |-> <<XCom>>]
        current == {FlagKeys[i][1] : i \in 1..4}
        legacy == {FlagKeys[i][2] : i \in 1..4}
        Opt(ks) == {EmptyRecord, Items(ks, TRUE), Items(ks, FALSE)}
    IN  {c @@ l @@ g @@ lists :
            c \in Opt(current), l \in Opt(legacy), g \in Opt({"loggingEnabled"})}
        \cup {[filterUsers |-> FALSE, blockUsers |-> TRUE, blockKeywords |-> TRUE,
               filterSubreddits |-> TRUE, blockSubreddits |-> FALSE] @@ lists,
              [filterUsers |-> TRUE, blockKeywords |-> FALSE,
               blockDomains |-> TRUE, filterDomains |-> FALSE] @@ lists}

\* another device of the same account turns synchronization off: its
\* _data_migrate removes the keys from the synchronized area
RemoteMigrate ==
    /\ (DOMAIN sync) \cap KeysToRemove # {}
    /\ sync' = ApplyOp(sync, DataMigrate(FALSE))
    /\ UNCHANGED <<ruleVars, filtered_count, current_url, pageVars, debounce_timeout,
                   clockVars, reads, badge, bgVars, msgVars, local, localQ, syncQ, popupVars>>
    /\ NoScan

\* the preference flags over reloads from the synchronized area, which holds
\* any of the records and may be emptied from elsewhere between reloads
InitFlags ==
    \E rec \in FlagRecords :
        InitState(EmptyRecord, rec, Catalog, [e \in Slots |-> "absent"],
                  "/r/pics/", DefaultForm)

NextFlags ==
    \/ LocalGetCallback
    \/ AreaGetCallback
    \/ TimerFired
    \/ Tick
    \/ DomAdd
    \/ RemoteMigrate

SpecFlags == InitFlags /\ [][NextFlags]_vars

\* the popup document loaded, its script run to the last line, before
\* DOMContentLoaded
PopupLoading ==
    /\ popup_stage = "loading"
    /\ dcl_listeners = {"construct"}
    /\ click_listeners = {}

\* the popup opened over a page whose content script is loading: the popup
\* starts up, the user edits and clicks, the storage areas complete their
\* operations
InitPopup ==
    \E a \in StoreAreas, href \in URLs :
        /\ InitPage(a.local, a.sync, Catalog, [e \in Slots |-> "absent"], href,
                    DefaultForm)
        /\ PopupLoading

NextPopup ==
    \/ DOMContentLoaded
    \/ TabsQueryCallback
    \/ DataLoadLocalCallback
    \/ DataLoadAreaCallback
    \/ \E a \in CleanupActions : CleanupButtonClicked(a)
    \/ FormEdited
    \/ LocalApply
    \/ SyncApply
    \/ LocalGetCallback
    \/ AreaGetCallback

SpecPopup == InitPopup /\ [][NextPopup]_vars

\* settings on their way to the engine: in the initialized popup the user
\* edits the user list, each edit saving; the content script reloads at
\* start and after mutations. The event loop runs the storage operations,
\* callbacks and timers that are due; the user and the page are free to do
\* nothing
InitSettings ==
    \E a \in StoreAreas :
        InitState(a.local, a.sync, Catalog, [e \in Slots |-> "absent"], "/r/pics/",
                  DataLoad(DefaultForm, a.local, a.sync))

NextSettings ==
    \/ \E text \in {<<>>, <<"u", "/", "b", "o", "b">>} : TextInput("userList", text)
    \/ LocalApply
    \/ SyncApply
    \/ LocalGetCallback
    \/ AreaGetCallback
    \/ DomAdd
    \/ Tick
    \/ TimerFired

SpecSettings ==
    /\ InitSettings /\ [][NextSettings]_vars
    /\ WF_vars(LocalApply) /\ WF_vars(SyncApply)
    /\ WF_vars(Tick) /\ WF_vars(TimerFired)
    /\ WF_vars(LocalGetCallback)
    \* weak fairness of AreaGetCallback, its enabling condition written out
    /\ \/ []<>(reads["sync"] + reads["local"] = 0)
       \/ []<><<AreaGetCallback>>_vars

\* the area-selecting flag and its readers: the popup starts up over a thread
\* whose content script is loading, the user toggles the sync box, each
\* toggle saving, thread cleanup runs, and the storage areas complete their operations in their own time
InitBootstrap ==
    \E a \in StoreAreas :
        /\ InitPage(a.local, a.sync, Catalog, [e \in Slots |-> "absent"],
                    "/r/pics/comments/1/", DefaultForm)
        /\ PopupLoading

NextBootstrap ==
    \/ DOMContentLoaded
    \/ TabsQueryCallback
    \/ DataLoadLocalCallback
    \/ DataLoadAreaCallback
    \/ popup_stage = "ready" /\ CheckboxChanged("enableSync")
    \/ LocalApply
    \/ SyncApply
    \/ LocalGetCallback
    \/ AreaGetCallback
    \/ CleanupUsersExecute
    \/ CleanupMessage
    \/ PopupCleanupCallback
    \/ CleanupStore

SpecBootstrap == InitBootstrap /\ [][NextBootstrap]_vars

\* the raw subreddit and keyword lists the pruning specification starts
\* from: mixed-case and "r/"-prefixed entries
PruneRecords ==
    {Stored(<<Alice>>, kws, subs, <<<<>>>>, FALSE, TRUE, TRUE, TRUE, FALSE) :
        kws \in {<<<<"S", "A", "l", "e">>>>, <<<<"H", "i">>, Sale>>},
        subs \in {<<<<"r", "/", "P", "i", "c", "s">>>>,
                  <<<<"P", "i", "c", "s">>, <<"a", "w", "w">>>>,
                  <<<<"r", "/", "a", "w", "w">>, <<"P", "i", "c", "S">>>>}}

\* keyword and subreddit cleanup from an open popup on a listing page: the
\* first reload and, one cleanup after the other has been stored, the
\* request, the popup's callback and its write
InitPrune ==
    \E rec \in PruneRecords, shown \in SUBSET {e \in Slots : Catalog[e].kind = "post"} :
        \E a \in AreasWith(rec) :
            InitState(a.local, a.sync, Catalog,
                      [e \in Slots |-> IF e \in shown THEN "block" ELSE "absent"],
                      "/r/pics/",
                      DataLoad(DefaultForm, a.local, a.sync))

NextPrune ==
    \/ LocalGetCallback
    \/ AreaGetCallback
    \/ /\ cleanup_writes = <<>> /\ localQ = <<>> /\ syncQ = <<>>
       /\ \E a \in {"cleanupKeywords", "cleanupSubreddits"} : PopupCleanupClick(a)
    \/ CleanupMessage
    \/ PopupCleanupCallback
    \/ CleanupStore
    \/ LocalApply
    \/ SyncApply

SpecPrune == InitPrune /\ [][NextPrune]_vars

\* the counts the reports carry: none, zero, both sides of every change of
\* length and of the cap
ReportCounts ==
    {<<>>} \cup {<<c>> : c \in {0, 1, 2, 9, 10, 42, 99, 100, 500, 998, 999, 1000, 1001, 5000}}

\* the background service worker with its tabs' content scripts reporting
\* counts and the tabs being closed
InitBadge ==
    InitState(EmptyRecord, EmptyRecord, Catalog, [e \in Slots |-> "absent"], "/r/pics/",
              DefaultForm)

NextBadge ==
    \/ \E t \in Tabs, c \in ReportCounts : UpdateBadge(t, c)
    \/ \E t \in Tabs : TabRemoved(t)

SpecBadge == InitBadge /\ [][NextBadge]_vars

\* a current record with all lists and flags
FullRecord ==
    Stored(<<Alice>>, <<Sale>>, <<Pics>>, <<XCom>>, FALSE, TRUE, TRUE, TRUE, TRUE)

\* switching the storage area while the content script reloads: the record
\* is in the active area, the popup is loaded, the user toggles the sync box,
\* each toggle saving; the content script reloads at start and after
\* mutations; storage operations and callbacks complete in their own time
InitSwitch ==
    \E a \in AreasWith(FullRecord), href \in URLs :
        InitState(a.local, a.sync, Catalog, [e \in Slots |-> "absent"], href,
                  DataLoad(DefaultForm, a.local, a.sync))

NextSwitch ==
    \/ CheckboxChanged("enableSync")
    \/ LocalApply
    \/ SyncApply
    \/ LocalGetCallback
    \/ AreaGetCallback
    \/ DomAdd
    \/ Tick
    \/ TimerFired

SpecSwitch == InitSwitch /\ [][NextSwitch]_vars

\* the popup's start-up with the user at the controls from the moment their
\* listeners exist: the load's two callbacks, edits before and after them,
\* and the storage areas completing the saves
InitLoad ==
    \E a \in StoreAreas :
        /\ InitPage(a.local, a.sync, Catalog, [e \in Slots |-> "absent"], "/r/pics/",
                    DefaultForm)
        /\ PopupLoading

NextLoad ==
    \/ DOMContentLoaded
    \/ TabsQueryCallback
    \/ DataLoadLocalCallback
    \/ DataLoadAreaCallback
    \/ FormEditedEarly
    \/ FormEdited
    \/ LocalApply
    \/ SyncApply

SpecLoad == InitLoad /\ [][NextLoad]_vars

\* ------------------------------------------------------------------ claims

\* the elements a step hides: shown before it, display none after it
NewlyHidden == {e \in Slots : display[e] = "block" /\ display'[e] = "none"}

\* the step is a reload (_options_process) that detects a navigation
ResettingReload == last_handler' = "reload" /\ location # current_url

\* C3: without a reset the counter grows in every step by exactly the number
\* of elements that step hides, so it is never decremented and a rescan over
\* an element that is already hidden adds nothing: the counter is the number
\* of elements hidden since the last reset
C3_CountsEachHiddenElementOnce ==
    [][filtered_count' = (IF ResettingReload THEN 0 ELSE filtered_count)
                            + Cardinality(NewlyHidden)]_vars

\* C3 witness: a reload on a listing page has just rescanned while the post
\* of slot 1, which the rules in force match, was already hidden, and the
\* counter stands at 1
C3_Witness ==
    /\ last_handler = "reload"
    /\ ~PathIncludesComments(location)
    /\ display[1] = "none"
    /\ hidden_by[1] = None
    /\ filtered_count = 1
    /\ PostCategory(1, subreddit_bans, keyword_bans, user_bans, domain_bans,
                    Flags(filter_users, filter_keywords, filter_subreddits,
                          filter_domains)) # None

\* C4: the counter is reset only by a reload that finds the location changed;
\* such a reload remembers the new location and leaves in the counter only
\* what its own scan hides; a reload with the location unchanged never
\* lowers the counter, and only reloads touch the remembered location
C4_ResetOnlyOnNavigation ==
    [][/\ (filtered_count' < filtered_count => ResettingReload)
       /\ (ResettingReload =>
            /\ current_url' = location
            /\ filtered_count' = Cardinality(NewlyHidden))
       /\ (last_handler' = "reload" /\ location = current_url =>
            /\ filtered_count' >= filtered_count
            /\ current_url' = current_url)
       /\ (last_handler' # "reload" => current_url' = current_url)]_vars

\* C4 witness: a reload has just rescanned with the location unchanged and
\* the counter, already positive, was kept
C4_Witness ==
    /\ last_handler = "reload"
    /\ filtered_count > 0
    /\ \A e \in Slots : hidden_by[e] = None
    /\ \E e \in Slots : display[e] = "none"

\* C6: no rule set ever holds an empty or whitespace-only entry
C6_NoBlankEntries ==
    \A x \in user_bans \cup keyword_bans \cup subreddit_bans \cup domain_bans :
        Trim(x) # <<>>

\* whether s starts with the prefix p
StartsWith(s, p) == Len(s) >= Len(p) /\ SubSeq(s, 1, Len(p)) = p

\* C7: no author rule starts with "u/", no community rule starts with "r/",
\* no domain rule holds a scheme or starts with "www."
C7_PrefixesStripped ==
    /\ \A x \in user_bans : ~StartsWith(x, <<"u", "/">>)
    /\ \A x \in subreddit_bans : ~StartsWith(x, <<"r", "/">>)
    /\ \A x \in domain_bans :
        /\ ~StartsWith(x, WwwPrefix)
        /\ ~Includes(x, <<":", "/", "/">>)

\* C8: normalizing a rule of any category again returns the same rule
C8_NormalizerIdempotent ==
    /\ \A x \in user_bans : CleanUser(x) = x
    /\ \A x \in keyword_bans : KeepKeyword(x) /\ ToLowerCase(x) = x
    /\ \A x \in subreddit_bans : CleanSubreddit(x) = x
    /\ \A x \in domain_bans : CleanDomain(x) = x

\* the categories in the priority order of the matcher
Priority == <<"subreddit", "keyword", "user", "domain">>

\* category c is enabled and one of its rules matches the post of slot e
EnabledMatch(c, e, subs, kws, users, doms, fs, fk, fu, fd) ==
    IF c = "subreddit" THEN fs /\ ToLowerCase(Slice(elems[e].subreddit, 2)) \in subs
    ELSE IF c = "keyword"
        THEN fk /\ \E k \in kws : Includes(ToLowerCase(elems[e].title), k)
    ELSE IF c = "user" THEN fu /\ elems[e].author \in users
    ELSE fd /\ ToLowerCase(elems[e].domain) \in doms

\* the first category, in priority order, that is enabled and matches the
\* post of slot e under the rule store after the step; "none" if none is
FirstMatch(e) ==
    LET hit == {i \in 1..Len(Priority) :
            EnabledMatch(Priority[i], e, subreddit_bans', keyword_bans', user_bans',
                         domain_bans', filter_subreddits', filter_keywords',
                         filter_users', filter_domains')}
    IN  IF hit = {} THEN None
        ELSE Priority[CHOOSE i \in hit : \A j \in hit : i <= j]

\* C1: a reload on a listing page hides exactly the visible posts that some
\* enabled category matches, each reported under the first such category in
\* the order community, keyword, author, domain, and counts each once
C1_FirstMatchWins ==
    [][last_handler' = "reload" /\ ~PathIncludesComments(location) =>
        LET shown == {e \in Posts : display[e] = "block"}
        IN  /\ \A e \in shown :
                /\ hidden_by'[e] = FirstMatch(e)
                /\ display'[e] = (IF FirstMatch(e) = None THEN "block" ELSE "none")
            /\ filtered_count' = (IF ResettingReload THEN 0 ELSE filtered_count)
                    + Cardinality({e \in shown : FirstMatch(e) # None})]_vars

\* C1 witness: the post of slot 1 was hidden under the community category
\* while keyword filtering was enabled and a keyword rule occurs in its title
C1_Witness ==
    /\ last_handler = "reload"
    /\ hidden_by[1] = "subreddit"
    /\ display[1] = "none"
    /\ filtered_count >= 1
    /\ filter_keywords
    /\ \E k \in keyword_bans : Includes(ToLowerCase(elems[1].title), k)

\* C2: no scan (listing, thread, or the one the cleanupUsers handler runs)
\* iterates over, hides or counts an element whose display is none when the
\* scan starts
C2_HiddenElementsSkipped ==
    [][LET hiddenAtStart == {e \in Slots : display[e] = "none"}
       IN  /\ evaluated' \cap hiddenAtStart = {}
           /\ \A e \in hiddenAtStart : hidden_by'[e] = None
           /\ filtered_count' <= filtered_count + Cardinality(evaluated')]_vars

\* C2 witness: the cleanupUsers handler has just scanned a thread in which a
\* reply by one of the collected authors was already hidden, and skipped it
C2_Witness ==
    /\ last_handler = "cleanupUsers"
    /\ response.status = 200
    /\ evaluated # {}
    /\ \E e \in Comments :
        /\ display[e] = "none"
        /\ hidden_by[e] = None
        /\ e \notin evaluated
        /\ elems[e].author \in Range(response.message)

\* q without the entries that occur earlier in it
RECURSIVE FirstSeen(_)
FirstSeen(q) ==
    IF q = <<>> THEN <<>>
    ELSE LET front == FirstSeen(SubSeq(q, 1, Len(q) - 1))
             x == q[Len(q)]
         IN  IF x \in Range(front) THEN front ELSE Append(front, x)

\* the non-empty authors of the elements present, in document order
RECURSIVE AuthorsUpTo(_)
AuthorsUpTo(n) ==
    IF n = 0 THEN <<>>
    ELSE IF display[n] # "absent" /\ elems[n].author # <<>>
    THEN Append(AuthorsUpTo(n - 1), elems[n].author)
    ELSE AuthorsUpTo(n - 1)

\* C9: a cleanupUsers request on a thread is answered with the authors of
\* the elements present that are not in the author rule set, each once, in
\* first-seen order
C9_DistinctUnfilteredAuthors ==
    [][last_handler' = "cleanupUsers" /\ response'.status = 200 =>
        LET NotBanned(a) == a \notin user_bans
        IN  response'.message = FirstSeen(SelectSeq(AuthorsUpTo(NumElems), NotBanned))]_vars

\* C10: cleanupUsers is answered 400 exactly off a thread, the 400 outcome
\* hides nothing and leaves counter and rule sets alone, and the popup's
\* handling of a 400 changes neither its form nor storage
C10_RejectedOffThread ==
    [][/\ (last_handler' = "cleanupUsers" =>
            /\ response'.status \in {200, 400}
            /\ (response'.status = 400 <=> ~PathIncludesComments(location))
            /\ (response'.status = 400 =>
                    UNCHANGED <<display, filtered_count, ruleVars>>))
       /\ (response.action = "cleanupUsers" /\ response.status = 400
                /\ response'.status = 0 =>
            UNCHANGED <<form, cleanup_writes, storeVars>>)]_vars

\* C10 witness: the popup has shown the inline message for a rejected
\* request and nothing is queued for storage
C10_Witness ==
    /\ description
    /\ response.status = 0
    /\ ~PathIncludesComments(location)
    /\ cleanup_writes = <<>> /\ localQ = <<>> /\ syncQ = <<>>

\* the keys the claim calls known: the current and the legacy ones
KnownKeys == ContentKeys

\* the area a reader is sent to by the flag pinned in the local area
ActiveAreaIsSync == EnableSyncOf(AreaGet(local, {"enableSync"}))

\* the state a completed save of the form leaves: the pinned flag selects the
\* area the form chose, that area holds every item of the saved record, and
\* the other area holds no known key
SaveCompleted ==
    LET data == DataToSave(form)
        active == IF form.enableSync THEN sync ELSE local
        inactive == IF form.enableSync THEN local ELSE sync
    IN  /\ ActiveAreaIsSync = form.enableSync
        /\ \A k \in DOMAIN data : Has(active, k) /\ active[k] = data[k]
        /\ (DOMAIN inactive) \cap KnownKeys = {}

\* C5: whenever the last queued storage operation of the saves issued so far
\* completes, the save of the form as it stands is complete in that sense,
\* for either value of enableSync
C5_SaveSelectsAndMigrates ==
    [][(localQ # <<>> \/ syncQ # <<>>) /\ localQ' = <<>> /\ syncQ' = <<>>
        => SaveCompleted']_vars

\* C5 witness: a save with enableSync off has completed after the sync area
\* had been the active one: the record is in the local area and the sync
\* area, still carrying its own enableSync item, holds no known key
C5_Witness ==
    /\ localQ = <<>> /\ syncQ = <<>>
    /\ ~form.enableSync
    /\ SaveCompleted
    /\ Has(local, "hiddenUsers")
    /\ Has(sync, "enableSync") /\ sync["enableSync"]

\* C11: a reload is started by the timer only a full delay after the last
\* batch with an added node; a batch without added nodes leaves the timer as
\* it is; and unless batches with added nodes keep arriving for ever, a
\* pending timer fires and the reload it starts ends in a rescan
C11_TrailingDebounce ==
    /\ [][reads'["pin"] > reads["pin"] => quiet = DebounceTicks]_vars
    /\ [][(\E e \in Slots : display[e] # "absent" /\ display'[e] = "absent")
            => debounce_timeout' = debounce_timeout /\ elapsed' = elapsed]_vars
    /\ \/ []<><<DomAdd>>_vars
       \/ /\ debounce_timeout ~> ~debounce_timeout
          /\ (ReadsInFlight > 0) ~> (last_handler = "reload")

\* C11 witness: a second rescan has hidden an element, so a reload started
\* by the timer has run after elements were added
C11_Witness ==
    /\ last_handler = "reload"
    /\ filtered_count = 2
    /\ Cardinality({e \in Slots : hidden_by[e] # None}) = 1
    /\ ~debounce_timeout

\* C12: the scans of one step act in the mode of the current path: on a
\* thread only replies are matched and hidden, by author only; elsewhere
\* only listing elements are; so no reply is hidden by a community or
\* keyword rule
C12_OneModePerPath ==
    /\ evaluated \subseteq (IF PathIncludesComments(location) THEN Comments ELSE Posts)
    /\ \A e \in Slots :
        hidden_by[e] # None =>
            IF PathIncludesComments(location)
            THEN elems[e].kind = "comment" /\ hidden_by[e] = "user"
            ELSE elems[e].kind = "post"

\* C12 witness: on a thread a reload has hidden a reply by its author while
\* a listing element matching the rules stays shown
C12_Witness ==
    /\ PathIncludesComments(location)
    /\ last_handler = "reload"
    /\ \E e \in Comments : hidden_by[e] = "user"
    /\ \E e \in Posts :
        /\ display[e] = "block"
        /\ PostCategory(e, subreddit_bans, keyword_bans, user_bans, domain_bans,
                        Flags(filter_users, filter_keywords, filter_subreddits,
                              filter_domains)) # None

\* no category that is enabled after the step matches the element of slot e
NoEnabledMatch(e) ==
    IF elems[e].kind = "post" THEN FirstMatch(e) = None
    ELSE ~(filter_users' /\ elems[e].author \in user_bans')

\* C13: a reload hides nothing under a category whose flag is off at scan
\* time; a shown element that only rules of disabled categories match stays
\* shown, and when that is so of all shown elements the counter does not grow
C13_DisabledCategorySkipped ==
    [][last_handler' = "reload" =>
        LET shown == {e \in Slots : display[e] = "block"}
        IN  /\ \A e \in Slots :
                /\ hidden_by'[e] = "subreddit" => filter_subreddits'
                /\ hidden_by'[e] = "keyword" => filter_keywords'
                /\ hidden_by'[e] = "user" => filter_users'
                /\ hidden_by'[e] = "domain" => filter_domains'
            /\ \A e \in shown : NoEnabledMatch(e) => display'[e] = "block"
            /\ (\A e \in shown : NoEnabledMatch(e)) =>
                    filtered_count' = (IF ResettingReload THEN 0 ELSE filtered_count)]_vars

\* C13 witness: after a reload with every category disabled, a post whose
\* author and community are in the rule sets and a reply whose author is
\* are still shown, and nothing was counted
C13_Witness ==
    /\ last_handler = "reload"
    /\ ~filter_users /\ ~filter_subreddits /\ ~filter_keywords /\ ~filter_domains
    /\ \E e \in Posts :
        /\ display[e] = "block"
        /\ elems[e].author \in user_bans
        /\ ToLowerCase(Slice(elems[e].subreddit, 2)) \in subreddit_bans
    /\ \E e \in Comments : display[e] = "block" /\ elems[e].author \in user_bans
    /\ filtered_count = 0

\* C14: the domain category hides no listing element whose domain
\* attribute is empty
C14_DomainNeedsDomain ==
    \A e \in Posts : hidden_by[e] = "domain" => elems[e].domain # <<>>

\* the record the reload of this step was handed by the storage area
ReadResult ==
    AreaGet(IF reads'["sync"] < reads["sync"] THEN sync ELSE local, ContentKeys)

\* C15: after a reload from a record that holds neither a flag's key nor its
\* legacy key, the flag is false
C15_AbsentFlagsDefaultFalse ==
    [][last_handler' = "reload" =>
        LET r == ReadResult
        IN  /\ ~Has(r, "loggingEnabled") => ~logging_enabled'
            /\ ~Has(r, "filterUsers") /\ ~Has(r, "blockUsers") => ~filter_users'
            /\ ~Has(r, "filterKeywords") /\ ~Has(r, "blockKeywords") => ~filter_keywords'
            /\ ~Has(r, "filterSubreddits") /\ ~Has(r, "blockSubreddits")
                    => ~filter_subreddits'
            /\ ~Has(r, "filterDomains") /\ ~Has(r, "blockDomains") => ~filter_domains'
    ]_vars

\* C16: a reload adopts for each category's flag the value under the current
\* key when the record holds it, whatever the legacy key says, and the value
\* under the legacy key when only that one is held
C16_LegacyFallback ==
    [][last_handler' = "reload" =>
        LET r == ReadResult
            flag == <<filter_users', filter_keywords', filter_subreddits', filter_domains'>>
        IN  \A i \in 1..4 :
                /\ Has(r, FlagKeys[i][1]) => flag[i] = r[FlagKeys[i][1]]
                /\ ~Has(r, FlagKeys[i][1]) /\ Has(r, FlagKeys[i][2])
                        => flag[i] = r[FlagKeys[i][2]]
    ]_vars

\* C16 witness: a reload has read a record whose filterUsers is false and
\* blockUsers true, and which holds blockKeywords alone, true: user
\* filtering is off and keyword filtering on
C16_Witness ==
    /\ last_handler = "reload"
    /\ Has(sync, "filterUsers") /\ ~sync["filterUsers"]
    /\ Has(sync, "blockUsers") /\ sync["blockUsers"]
    /\ ~Has(sync, "filterKeywords")
    /\ Has(sync, "blockKeywords") /\ sync["blockKeywords"]
    /\ ~filter_users
    /\ filter_keywords

\* C18: once the popup has initialized, each cleanup button has its click
\* listener, so that a click sends the button's request
C18_CleanupClicksRegistered ==
    popup_stage = "ready" => click_listeners = CleanupActions

\* the engine's rule sets and flags are the normalization of the record rec
EngineHolds(rec) ==
    /\ user_bans = NewUserBans(rec)
    /\ keyword_bans = NewKeywordBans(rec)
    /\ subreddit_bans = NewSubredditBans(rec)
    /\ domain_bans = NewDomainBans(rec)
    /\ logging_enabled = rec["loggingEnabled"]
    /\ filter_users = rec["filterUsers"]
    /\ filter_keywords = rec["filterKeywords"]
    /\ filter_subreddits = rec["filterSubreddits"]
    /\ filter_domains = rec["filterDomains"]

\* C20: once a save of the popup's form has completed, the engine comes to
\* hold the normalization of the saved record, whether or not the page
\* mutates afterwards
C20_SavedSettingsReachEngine ==
    (localQ = <<>> /\ syncQ = <<>> /\ SaveCompleted) ~> EngineHolds(DataToSave(form))

\* the replies shown before the step whose author is in the list the step's
\* response carries
RepliesOfListed ==
    {e \in Comments : display[e] = "block" /\ elems[e].author \in Range(response'.message)}

\* C19 as stated: a cleanupUsers request answered 200 with a list hides and
\* counts, in the same step, every shown reply whose author is in the list,
\* whatever the flags
C19_CleanupHidesListed ==
    [][last_handler' = "cleanupUsers" /\ response'.status = 200 =>
        /\ \A e \in RepliesOfListed : display'[e] = "none" /\ hidden_by'[e] = "user"
        /\ filtered_count' = filtered_count + Cardinality(RepliesOfListed)]_vars

\* C19 amended: it does so when user filtering is enabled; when it is
\* disabled the request is answered with the same list and the step hides
\* and counts nothing
C19_CleanupHidesListedWhenEnabled ==
    [][last_handler' = "cleanupUsers" /\ response'.status = 200 =>
        IF filter_users
        THEN /\ \A e \in RepliesOfListed : display'[e] = "none" /\ hidden_by'[e] = "user"
             /\ filtered_count' = filtered_count + Cardinality(RepliesOfListed)
        ELSE /\ display' = display
             /\ filtered_count' = filtered_count]_vars

\* C19 witness: with user filtering enabled a cleanupUsers request was
\* answered 200 with a list of two authors and the step hid a reply of each
C19_Witness ==
    /\ last_handler = "cleanupUsers"
    /\ response.status = 200
    /\ filter_users
    /\ Len(response.message) >= 2
    /\ \E e1, e2 \in Comments :
        /\ elems[e1].author # elems[e2].author
        /\ hidden_by[e1] = "user" /\ hidden_by[e2] = "user"
        /\ elems[e1].author \in Range(response.message)
        /\ elems[e2].author \in Range(response.message)

\* the local area sends its readers to the sync area: it holds no enableSync
\* item or holds true
PinnedSync(loc) == ~("enableSync" \in DOMAIN loc /\ loc["enableSync"] = FALSE)

\* C17: a save queues the write of enableSync on the local area ahead of its
\* other operations and queues the record on the area that value selects, so
\* with no local operation pending the local flag selects the area the form
\* saves to; the content script's reload, the popup's load and the popup's
\* cleanup write each go to the area the local flag selects, the sync area
\* when the flag is absent, whatever the sync area holds
C17_BootstrapInvariant ==
    [][/\ Len(localQ') = Len(localQ) + 2 =>
            /\ localQ'[Len(localQ) + 1] = SetOp([enableSync |-> form'.enableSync])
            /\ IF form'.enableSync
               THEN syncQ' = Append(syncQ, SetOp(DataToSave(form')))
               ELSE localQ'[Len(localQ')] = SetOp(DataToSave(form'))
       /\ popup_stage' = "ready" /\ localQ' = <<>> =>
            PinnedSync(local') = form'.enableSync
       /\ reads'["pin"] < reads["pin"] =>
            /\ reads'["sync"] = reads["sync"] + (IF PinnedSync(local) THEN 1 ELSE 0)
            /\ reads'["local"] = reads["local"] + (IF PinnedSync(local) THEN 0 ELSE 1)
       /\ popup_stage = "pin" /\ popup_stage' # "pin" =>
            /\ form'.enableSync = PinnedSync(local)
            /\ popup_stage' = IF PinnedSync(local) THEN "area_sync" ELSE "area_local"
       /\ popup_stage \in {"area_sync", "area_local"} /\ popup_stage' = "ready" =>
            LET area == IF popup_stage = "area_sync" THEN sync ELSE local
            IN  /\ form'.enableSync = form.enableSync
                /\ form'.userList = IF "hiddenUsers" \in DOMAIN area
                                    THEN JoinLines(area["hiddenUsers"])
                                    ELSE form.userList
       /\ Len(cleanup_writes') < Len(cleanup_writes) =>
            IF PinnedSync(local)
            THEN syncQ' = Append(syncQ, SetOp(Head(cleanup_writes))) /\ localQ' = localQ
            ELSE localQ' = Append(localQ, SetOp(Head(cleanup_writes))) /\ syncQ' = syncQ
      ]_vars

\* C17 witness: a save with enableSync off has put false into the local area
\* while the sync area still holds a user list; the content script's read
\* has gone to the local area and the popup's cleanup write is queued there
C17_Witness ==
    /\ popup_stage = "ready"
    /\ ~form.enableSync
    /\ "enableSync" \in DOMAIN local /\ ~local["enableSync"]
    /\ "hiddenUsers" \in DOMAIN sync
    /\ reads["local"] = 1
    /\ localQ # <<>>
    /\ DOMAIN Head(localQ).items = {"hiddenUsers"}
    /\ response.status = 0 /\ cleanup_writes = <<>>

\* the popup handles the response to a cleanupKeywords or cleanupSubreddits
\* request
PruneStep ==
    /\ response.status = 200
    /\ response.action \in {"cleanupKeywords", "cleanupSubreddits"}
    /\ response'.status = 0

\* the raw lines of the pruned field whose canonical rule is not in found
KeptRaw(f, found) ==
    IF response.action = "cleanupKeywords"
    THEN SelectSeq(FieldLines(f.keywordList), LAMBDA k : ToLowerCase(k) \notin found)
    ELSE SelectSeq(FieldLines(f.subredditList), LAMBDA r : CleanSubreddit(r) \notin found)

\* C21: the collectors answer with lower-cased rules of the engine, and when
\* the popup handles a cleanupKeywords or cleanupSubreddits response the
\* list it shows and the list it queues for storage are the raw lines whose
\* canonical rule (lower-cased, "r/" stripped) is not in the response
C21_PruneByCanonicalRule ==
    [][PruneStep =>
        /\ \A v \in response.message : ToLowerCase(v) = v
        /\ LET kept == KeptRaw(form, response.message)
               field == IF response.action = "cleanupKeywords"
                        THEN "keywordList" ELSE "subredditList"
               key == IF response.action = "cleanupKeywords"
                      THEN "hiddenKeywords" ELSE "hiddenSubreddits"
           IN  /\ form'[field] = JoinLines(kept)
               /\ cleanup_writes'[Len(cleanup_writes')] = [k \in {key} |-> kept]]_vars

\* the number a text of decimal digits denotes, -1 for any other text
RECURSIVE DecimalValue(_)
DecimalValue(text) ==
    IF text = <<>> THEN -1
    ELSE LET d == CHOOSE i \in 0..10 : i = 10 \/ Digits[i + 1] = text[Len(text)]
         IN  IF d = 10 THEN -1
             ELSE IF Len(text) = 1 THEN d
             ELSE LET rest == DecimalValue(SubSeq(text, 1, Len(text) - 1))
                  IN  IF rest <= 0 THEN -1 ELSE 10 * rest + d

PendingReloads == (IF debounce_timeout THEN 1 ELSE 0) + ReadsInFlight

\* C23: at most one reload-and-rescan is outstanding at any time, counting
\* the pending timer and the in-flight reads started by the initial load or
\* by an earlier timer
C23_OnePendingReload == PendingReloads <= 1

\* the rule store a reload of the record r alone would leave: the four sets
\* and the flags, a flag under neither of its keys being false
StoreOf(r) ==
    LET flag(key, legacy) == IF Has(r, key) THEN r[key]
                             ELSE IF Has(r, legacy) THEN r[legacy] ELSE FALSE
    IN  <<NewUserBans(r), NewSubredditBans(r), NewKeywordBans(r), NewDomainBans(r),
          IF Has(r, "loggingEnabled") THEN r["loggingEnabled"] ELSE FALSE,
          flag("filterUsers", "blockUsers"), flag("filterKeywords", "blockKeywords"),
          flag("filterSubreddits", "blockSubreddits"),
          flag("filterDomains", "blockDomains")>>

\* C24: a reload leaves a rule store whose four sets and flags all come from
\* the record that reload read, the scans of the reload hide exactly what
\* that store matches, and a cleanup collector leaves the store as the last
\* completed reload left it
C24_ReloadAtomic ==
    [][/\ last_handler' = "reload" =>
            /\ ruleVars' = StoreOf(ReadResult)
            /\ LET fl == Flags(filter_users', filter_keywords', filter_subreddits',
                              filter_domains')
                   hp == PostsBan(location, display, subreddit_bans', keyword_bans',
                                  user_bans', domain_bans', fl)
               IN  NewlyHidden = hp \cup CommentsBan(location, Hide(display, hp),
                                                     user_bans', fl)
       /\ last_handler' \in CleanupActions => UNCHANGED ruleVars
      ]_vars

\* the listing elements in the document, shown or hidden
ListingElements == {e \in Slots : elems[e].kind = "post" /\ display[e] # "absent"}

\* rule occurs in text at some position, letter case apart
OccursIn(rule, text) ==
    \E i \in 1..(Len(text) - Len(rule) + 1) :
        ToLowerCase(SubSeq(text, i, i + Len(rule) - 1)) = ToLowerCase(rule)

C26_BadgeMatchesCounter == badge = filtered_count

\* C27: while saves that only switch the storage area interleave with
\* reloads, every reload is handed the saved record whole: each item the
\* saves write that the content script asks for, with the saved value
C27_ReloadReadsSavedRecord ==
    [][last_handler' = "reload" =>
        ReadResult = AreaGet(DataToSave(form), ContentKeys)]_vars

\* C28: a save runs only once the load has populated the form
C28_NoSaveBeforeLoad ==
    [][Len(localQ') = Len(localQ) + 2 => popup_stage = "ready"]_vars

\* the form a popup opened now would show once its load has completed
FreshLoad == DataLoad(DefaultForm, local, sync)

\* C29: whenever the last queued storage operation of the saves issued so far
\* completes, a popup opened then loads the four lists with the lines the
\* saved form had, trimmed, and the six boxes as the saved form had them
C29_SaveLoadRoundTrip ==
    [][(localQ # <<>> \/ syncQ # <<>>) /\ localQ' = <<>> /\ syncQ' = <<>> =>
        /\ \A field \in {"userList", "keywordList", "subredditList", "domainList"} :
               FieldLines(FreshLoad'[field]) = FieldLines(form'[field])
        /\ \A box \in {"loggingEnabled", "filterUsers", "filterKeywords",
                       "filterSubreddits", "filterDomains", "enableSync"} :
               FreshLoad'[box] = form'[box]]_vars

\* C29 witness: the sync box was unticked and a two-line user list saved with
\* it; with every operation complete a fresh load goes to the local area and
\* shows both lines and the boxes as saved
C29_Witness ==
    /\ localQ = <<>> /\ syncQ = <<>>
    /\ ~form.enableSync
    /\ ~FreshLoad.enableSync
    /\ Len(FieldLines(form.userList)) = 2
    /\ FieldLines(FreshLoad.userList) = FieldLines(form.userList)
    /\ FreshLoad.filterUsers = form.filterUsers
    /\ ~Has(sync, "hiddenUsers")

====
